---- MODULE Spec2Model ----
(***************************************************************************)
(* Model of src/src/scraper.py: the two-batch asyncio scraping pipeline.   *)
(*                                                                         *)
(* main() builds one listing PageTask per SiteConfig, fetches them all     *)
(* with asyncio.gather inside one aiohttp session, extracts the post links *)
(* of every listing page, fetches all posts with a second gather inside a  *)
(* second session, parses every post and writes output/result.json.        *)
(*                                                                         *)
(* A fetched body (bytes) is abstracted to what BeautifulSoup's select     *)
(* returns on it for the three selectors of the SiteConfig: the link       *)
(* nodes (their href attribute), the title nodes and the body nodes (their *)
(* text, a sequence of characters), plus whether the byte string is b"".   *)
(***************************************************************************)
EXTENDS Integers, Sequences, FiniteSets, TLC

(***************************************************************************)
(* Bounds of the model and program constants.                              *)
(***************************************************************************)
\* main(): SITE_COUNT = 1
SITE_COUNT == 1
\* largest number of link nodes a listing page holds in the model
MaxLinks == 3
\* the concurrencyLimit of runBatch in the specification (default 50),
\* scaled down so that a batch of MaxLinks tasks exceeds it
ConcurrencyLimit == 2

\* all sequences over S of length at most n
RECURSIVE BSeq(_, _)
BSeq(S, n) ==
    IF n = 0 THEN {<<>>}
    ELSE LET shorter == BSeq(S, n - 1)
         IN  shorter \cup {Append(s, x) : s \in {t \in shorter : Len(t) = n - 1}, x \in S}

(***************************************************************************)
(* SiteConfig and list_all_sites.                                          *)
(***************************************************************************)
LinkSelector == "div.main__new__slider__desc > a"
TitleSelector == "h1.news__inner__desc__title"
BodySelector == "section.article-content > p"

SiteConfig(base_url, extension, link_selector, title_selector, body_selector) ==
    [base_url |-> base_url, extension |-> extension, link_selector |-> link_selector,
     title_selector |-> title_selector, body_selector |-> body_selector]

list_all_sites(site_count) ==
    [i \in 1..site_count |->
        SiteConfig("https://formulanews.ge", "/Category/all",
                   LinkSelector, TitleSelector, BodySelector)]

(***************************************************************************)
(* Bodies.  html = b"" is EmptyBytes.                                       *)
(***************************************************************************)
Document(empty, links, titles, paras) ==
    [empty |-> empty, links |-> links, titles |-> titles, paras |-> paras]

EmptyBytes == Document(TRUE, <<>>, <<>>, <<>>)

\* the value of tag.get("href") of a link node: a string, or None
Attr(value) == [present |-> TRUE, value |-> value]
NoneAttr == [present |-> FALSE, value |-> ""]
HrefAttrs == {Attr("/a"), NoneAttr}
\* str(x) of an attribute value: str(None) is "None"
Str(attr) == IF attr.present THEN attr.value ELSE "None"

TitleNodes == {<< >>, << <<" ", "T", " ">> >>, << <<"T">>, <<"U">> >>}
BodyNodes == {<< >>, << <<" ", "p">>, <<"q", " ">> >>}

\* what a server may answer on a listing URL and on a post URL
ListingBodies ==
    {EmptyBytes} \cup {Document(FALSE, l, <<>>, <<>>) : l \in BSeq(HrefAttrs, MaxLinks)}
PostBodies ==
    {EmptyBytes} \cup {Document(FALSE, <<>>, t, p) : t \in TitleNodes, p \in BodyNodes}

(***************************************************************************)
(* PageTask.                                                               *)
(***************************************************************************)
PageTask(site, url) == [site |-> site, url |-> url, html |-> EmptyBytes]

(***************************************************************************)
(* BeautifulSoup: select, select_one, get_text(strip=True).                *)
(***************************************************************************)
Whitespace == {" ", "\n"}

RECURSIVE LStrip(_)
LStrip(s) ==
    IF s = <<>> THEN s
    ELSE IF Head(s) \in Whitespace THEN LStrip(Tail(s)) ELSE s

RECURSIVE RStrip(_)
RStrip(s) ==
    IF s = <<>> THEN s
    ELSE IF s[Len(s)] \in Whitespace THEN RStrip(SubSeq(s, 1, Len(s) - 1)) ELSE s

\* node.get_text(strip=True)
get_text(node) == RStrip(LStrip(node))

\* soup.select(selector): the nodes of the document the selector matches
select(html, selector) ==
    IF selector = LinkSelector THEN html.links
    ELSE IF selector = TitleSelector THEN html.titles
    ELSE IF selector = BodySelector THEN html.paras
    ELSE <<>>

\* soup.select_one(selector): the first match, or None (the empty sequence)
select_one(html, selector) ==
    LET tags == select(html, selector)
    IN  IF tags = <<>> THEN <<>> ELSE <<tags[1]>>

\* sep.join(parts)
RECURSIVE join(_, _)
join(sep, parts) ==
    IF parts = <<>> THEN <<>>
    ELSE IF Len(parts) = 1 THEN parts[1]
    ELSE parts[1] \o sep \o join(sep, Tail(parts))

(***************************************************************************)
(* extract_links, generate_post_tasks.                                     *)
(***************************************************************************)
\* seq without the elements that occur earlier in it
RECURSIVE Dedup(_)
Dedup(seq) ==
    IF seq = <<>> THEN <<>>
    ELSE LET front == Dedup(SubSeq(seq, 1, Len(seq) - 1))
             last == seq[Len(seq)]
         IN  IF \E k \in 1..Len(front) : front[k] = last THEN front ELSE Append(front, last)

\* mutant of extract_links: a link that was seen already is left out
extract_links_dedup(html, link_selector, base_url) ==
    LET tags == select(html, link_selector)
    IN  Dedup([k \in 1..Len(tags) |-> base_url \o Str(tags[k])])

extract_links(html, link_selector, base_url) ==
    LET tags == select(html, link_selector)
    IN  [k \in 1..Len(tags) |-> base_url \o Str(tags[k])]

\* mutant of generate_post_tasks: the return sits inside the loops, the
\* first link found is the only post task
RECURSIVE generate_post_tasks_first(_)
generate_post_tasks_first(tasks) ==
    IF tasks = <<>> THEN <<>>
    ELSE LET task == Head(tasks)
             links == extract_links(task.html, task.site.link_selector, task.site.base_url)
         IN  IF links = <<>> THEN generate_post_tasks_first(Tail(tasks))
             ELSE <<PageTask(task.site, links[1])>>

RECURSIVE generate_post_tasks(_)
generate_post_tasks(tasks) ==
    IF tasks = <<>> THEN <<>>
    ELSE LET task == Head(tasks)
             links == extract_links(task.html, task.site.link_selector, task.site.base_url)
         IN  [k \in 1..Len(links) |-> PageTask(task.site, links[k])]
             \o generate_post_tasks(Tail(tasks))

\* mutant of parse_post_html: no check of title_tag, a missing title is ""
parse_post_html_unchecked(html, title_selector, body_selector, url) ==
    LET title_tag == select_one(html, title_selector)
        body_tags == select(html, body_selector)
        body_parts == [k \in 1..Len(body_tags) |-> get_text(body_tags[k])]
    IN  [ok |-> TRUE, title |-> IF title_tag = <<>> THEN <<>> ELSE get_text(title_tag[1]),
         body |-> join(<<"\n", "\n">>, body_parts), url |-> url]

\* mutant of parse_post_html: a post without body node is refused as well
parse_post_html_strict(html, title_selector, body_selector, url) ==
    LET title_tag == select_one(html, title_selector)
        body_tags == select(html, body_selector)
        body_parts == [k \in 1..Len(body_tags) |-> get_text(body_tags[k])]
    IN  IF title_tag = <<>> \/ body_parts = <<>>
        THEN [ok |-> FALSE, title |-> <<>>, body |-> <<>>, url |-> url]
        ELSE [ok |-> TRUE, title |-> get_text(title_tag[1]),
              body |-> join(<<"\n", "\n">>, body_parts), url |-> url]

(***************************************************************************)
(* parse_post_html: the record, or the ValueError of line 76.              *)
(***************************************************************************)
parse_post_html(html, title_selector, body_selector, url) ==
    LET title_tag == select_one(html, title_selector)
        body_tags == select(html, body_selector)
        body_parts == [k \in 1..Len(body_tags) |-> get_text(body_tags[k])]
    IN  IF title_tag = <<>>
        THEN [ok |-> FALSE, title |-> <<>>, body |-> <<>>, url |-> url]
        ELSE [ok |-> TRUE, title |-> get_text(title_tag[1]),
              body |-> join(<<"\n", "\n">>, body_parts), url |-> url]

(***************************************************************************)
(* State.                                                                  *)
(*   pc               where main() is                                      *)
(*   list_page_tasks  main's list of listing tasks (<<>> once deleted)     *)
(*   post_tasks       main's list of post tasks (<<>> once deleted)        *)
(*   coros            per batch, the coroutines task.assign_html(session)  *)
(*                    handed to gather: their state, the session they got, *)
(*                    the url of their task, the bytes fetch_html returned *)
(*                    (read), how often fetch_html was entered (gets) and  *)
(*                    how often self.html was assigned (sets)              *)
(*   gather           per batch, the future main awaits on line 43         *)
(*   session          per batch, the aiohttp.ClientSession of line 41      *)
(*   parsed_posts     the list parse_all_posts builds                      *)
(*   output           output/result.json: times opened, content            *)
(*   stdout           the lines printed                                    *)
(*   error            the exception that left main(), if any               *)
(*   completed        history: the coroutines <<batch, task>> that         *)
(*                    returned, in the order they did (kept by SpecLogged  *)
(*                    only, <<>> otherwise)                                *)
(***************************************************************************)
VARIABLES pc, list_page_tasks, post_tasks, coros, gather, session,
          parsed_posts, output, stdout, error, completed

vars == <<pc, list_page_tasks, post_tasks, coros, gather, session,
          parsed_posts, output, stdout, error, completed>>

Batches == {1, 2}
\* the stage of main in which batch b runs
Stage(b) == IF b = 1 THEN "FetchListings" ELSE "FetchPosts"
\* the list main passes to assign_html_to_tasks for batch b
Tasks(b) == IF b = 1 THEN list_page_tasks ELSE post_tasks
\* what the server may answer in batch b
Bodies(b) == IF b = 1 THEN ListingBodies ELSE PostBodies

NoError == [kind |-> "none", cause |-> "", url |-> "", batch |-> 0, task |-> 0]
\* how a fetch fails: raise_for_status on a non-2xx status (line 35), or the
\* session's timeout while the request or the read is awaited (lines 34, 36)
FetchCauses == {"status", "timeout"}
\* the exception fetch_html lets through for task i of batch b.  fetch_html
\* wraps nothing: the ClientResponseError of raise_for_status carries the
\* url of the request, the TimeoutError of a timeout carries nothing.
\* batch and task record which coroutine raised it.
FetchError(b, i, url, cause) ==
    [kind |-> "fetch", cause |-> cause, url |-> IF cause = "status" THEN url ELSE "",
     batch |-> b, task |-> i]
\* the ValueError of line 76, raised while post task i is parsed
ParseError(i) ==
    [kind |-> "parse", cause |-> "title", url |-> "", batch |-> 0, task |-> i]

\* mutant of Coroutine: one session for the run, opened by the first batch
CoroutineSharedSession(b, task) ==
    [st |-> "scheduled", session |-> 1, url |-> task.url, read |-> EmptyBytes,
     gets |-> 0, sets |-> 0]

\* task.assign_html(session), line 42, for the session of batch b
Coroutine(b, task) ==
    [st |-> "scheduled", session |-> b, url |-> task.url, read |-> EmptyBytes,
     gets |-> 0, sets |-> 0]
NoGather == [st |-> "none", exc |-> NoError]

Init ==
    /\ pc = "Init"
    /\ list_page_tasks = <<>>
    /\ post_tasks = <<>>
    /\ coros = [b \in Batches |-> <<>>]
    /\ gather = [b \in Batches |-> NoGather]
    /\ session = [b \in Batches |-> "none"]
    /\ parsed_posts = <<>>
    /\ output = [opens |-> 0, content |-> <<>>]
    /\ stdout = <<>>
    /\ error = NoError
    /\ completed = <<>>

(***************************************************************************)
(* main, lines 117-126: one listing task per site.                         *)
(***************************************************************************)
BuildListTasks ==
    /\ pc = "Init"
    /\ LET site_list == list_all_sites(SITE_COUNT)
       IN  list_page_tasks' =
               [i \in 1..Len(site_list) |->
                   PageTask(site_list[i], site_list[i].base_url \o site_list[i].extension)]
    /\ pc' = "FetchListings"
    /\ UNCHANGED <<post_tasks, coros, gather, session, parsed_posts, output, stdout, error,
                   completed>>

\* mutant of OpenBatch: asyncio.wait in place of gather, which raises a
\* ValueError on an empty set of coroutines
OpenBatchWait(b) ==
    /\ pc = Stage(b)
    /\ gather[b].st = "none"
    /\ session' = [session EXCEPT ![b] = "open"]
    /\ coros' = [coros EXCEPT ![b] = [i \in 1..Len(Tasks(b)) |-> Coroutine(b, Tasks(b)[i])]]
    /\ gather' = [gather EXCEPT ![b] =
                     IF Tasks(b) = <<>>
                     THEN [st |-> "exception",
                           exc |-> [kind |-> "value", cause |-> "empty", url |-> "",
                                    batch |-> b, task |-> 0]]
                     ELSE [@ EXCEPT !.st = "pending"]]
    /\ UNCHANGED <<pc, list_page_tasks, post_tasks, parsed_posts, output, stdout, error,
                   completed>>

(***************************************************************************)
(* assign_html_to_tasks, lines 41-43 up to the await: the session is       *)
(* opened, one coroutine per task is created and gather schedules them     *)
(* all.  gather of no coroutine is a future that already has its result.   *)
(***************************************************************************)
OpenBatch(b) ==
    /\ pc = Stage(b)
    /\ gather[b].st = "none"
    /\ session' = [session EXCEPT ![b] = "open"]
    /\ coros' = [coros EXCEPT ![b] = [i \in 1..Len(Tasks(b)) |-> Coroutine(b, Tasks(b)[i])]]
    /\ gather' = [gather EXCEPT ![b].st = IF Tasks(b) = <<>> THEN "result" ELSE "pending"]
    /\ UNCHANGED <<pc, list_page_tasks, post_tasks, parsed_posts, output, stdout, error,
                   completed>>

(***************************************************************************)
(* The event loop runs the first step of the scheduled coroutines in the   *)
(* order gather scheduled them; nothing in assign_html_to_tasks makes a    *)
(* coroutine wait for another.  fetch_html lines 33-34: print, session.get *)
(***************************************************************************)
StartFetch(b, i) ==
    /\ pc \in {Stage(b), "Raising"}
    /\ i \in 1..Len(coros[b])
    /\ coros[b][i].st = "scheduled"
    /\ \A j \in 1..(i - 1) : coros[b][j].st # "scheduled"
    /\ coros' = [coros EXCEPT ![b][i].st = "inflight", ![b][i].gets = @ + 1]
    /\ stdout' = Append(stdout, "Fetching: " \o coros[b][i].url)
    /\ UNCHANGED <<pc, list_page_tasks, post_tasks, gather, session, parsed_posts,
                   output, error, completed>>

\* mutant of assign_html: the body read is dropped
assign_html_dropped(task, body) == task

\* PageTask.assign_html, line 28: self.html = <the body read>
assign_html(task, body) == [task EXCEPT !.html = body]

\* mutant of GatherOnResult: the wait ends with the first coroutine that
\* returns (asyncio.wait with FIRST_COMPLETED)
GatherOnFirstResult(g, cs) ==
    IF g.st = "pending" /\ \E j \in 1..Len(cs) : cs[j].st = "done"
    THEN [g EXCEPT !.st = "result"] ELSE g

\* gather's callback on a coroutine that returned: the result is set once
\* every coroutine has returned
GatherOnResult(g, cs) ==
    IF g.st = "pending" /\ \A j \in 1..Len(cs) : cs[j].st = "done"
    THEN [g EXCEPT !.st = "result"] ELSE g

\* mutant of GatherOnException: gather(..., return_exceptions=True), an
\* exception counts as the result of its coroutine
GatherReturnExceptions(g, cs, exc) ==
    IF g.st = "pending" /\ \A j \in 1..Len(cs) : cs[j].st \in {"done", "failed"}
    THEN [g EXCEPT !.st = "result"] ELSE g

\* mutant of GatherOnException: the exception of a coroutine is dropped and
\* the wait goes on
GatherIgnoresException(g, cs, exc) == g

\* gather's callback on a coroutine that raised: the first exception is set
\* on the future, later ones are dropped
GatherOnException(g, cs, exc) ==
    IF g.st = "pending" THEN [st |-> "exception", exc |-> exc] ELSE g

\* mutant of AssignIn: html is one slot shared by the tasks of the list
AssignInAll(tasks, i, body) == [k \in 1..Len(tasks) |-> assign_html(tasks[k], body)]

\* the list tasks after task i ran line 28 with body; a task main's list no
\* longer holds is out of main's sight
AssignIn(tasks, i, body) ==
    IF i \in 1..Len(tasks) THEN [tasks EXCEPT ![i] = assign_html(@, body)] ELSE tasks

\* mutant of FetchOk: the coroutine fetches again after storing the body
FetchOkAgain(b, i, body) ==
    /\ i \in 1..Len(coros[b])
    /\ coros[b][i].st = "inflight"
    /\ body \in Bodies(b)
    /\ IF b = 1
       THEN /\ list_page_tasks' = AssignIn(list_page_tasks, i, body)
            /\ UNCHANGED post_tasks
       ELSE /\ post_tasks' = AssignIn(post_tasks, i, body)
            /\ UNCHANGED list_page_tasks
    /\ coros' = [coros EXCEPT ![b][i].st = IF coros[b][i].sets = 0 THEN "scheduled" ELSE "done",
                              ![b][i].read = body, ![b][i].sets = @ + 1]
    /\ gather' = [gather EXCEPT ![b] = GatherOnResult(@, coros'[b])]
    /\ UNCHANGED <<pc, session, parsed_posts, output, stdout, error, completed>>

(***************************************************************************)
(* fetch_html lines 35-36 and assign_html line 28: the response has a 2xx  *)
(* status and its body is read and stored in the task.                     *)
(***************************************************************************)
FetchOkStep(b, i, body) ==
    /\ i \in 1..Len(coros[b])
    /\ coros[b][i].st = "inflight"
    /\ body \in Bodies(b)
    /\ IF b = 1
       THEN /\ list_page_tasks' = AssignIn(list_page_tasks, i, body)
            /\ UNCHANGED post_tasks
       ELSE /\ post_tasks' = AssignIn(post_tasks, i, body)
            /\ UNCHANGED list_page_tasks
    /\ LET cs == [coros[b] EXCEPT ![i].st = "done", ![i].read = body, ![i].sets = @ + 1]
       IN  /\ coros' = [coros EXCEPT ![b] = cs]
           /\ gather' = [gather EXCEPT ![b] = GatherOnResult(@, cs)]
    /\ UNCHANGED <<pc, session, parsed_posts, output, stdout, error>>

FetchOk(b, i, body) ==
    /\ FetchOkStep(b, i, body)
    /\ UNCHANGED completed

\* FetchOk, with the order of the returns recorded
FetchOkLogged(b, i, body) ==
    /\ FetchOkStep(b, i, body)
    /\ completed' = Append(completed, <<b, i>>)

(***************************************************************************)
(* fetch_html lines 34-36: session.get, raise_for_status or read raises.   *)
(* The exception ends the coroutine; the html of the task stays as it was. *)
(***************************************************************************)
FetchFail(b, i, cause) ==
    /\ i \in 1..Len(coros[b])
    /\ coros[b][i].st = "inflight"
    /\ cause \in FetchCauses
    /\ LET cs == [coros[b] EXCEPT ![i].st = "failed"]
       IN  /\ coros' = [coros EXCEPT ![b] = cs]
           /\ gather' = [gather EXCEPT ![b] =
                  GatherOnException(@, cs, FetchError(b, i, coros[b][i].url, cause))]
    /\ UNCHANGED <<pc, list_page_tasks, post_tasks, session, parsed_posts, output,
                   stdout, error, completed>>

\* the stage main enters when batch b returned
AfterBatch(b) == IF b = 1 THEN "Expand" ELSE "Parse"

\* mutant of GatherReturn: the batch is started but not awaited
GatherNotAwaited(b) ==
    /\ pc = Stage(b)
    /\ gather[b].st \in {"pending", "result"}
    /\ session' = [session EXCEPT ![b] = "closed"]
    /\ pc' = AfterBatch(b)
    /\ UNCHANGED <<list_page_tasks, post_tasks, coros, gather, parsed_posts, output,
                   stdout, error, completed>>

(***************************************************************************)
(* assign_html_to_tasks, line 43 and the end of the with block of line 41: *)
(* gather has its result, the session is closed, the call returns.         *)
(***************************************************************************)
GatherReturn(b) ==
    /\ pc = Stage(b)
    /\ gather[b].st = "result"
    /\ session' = [session EXCEPT ![b] = "closed"]
    /\ pc' = AfterBatch(b)
    /\ UNCHANGED <<list_page_tasks, post_tasks, coros, gather, parsed_posts, output,
                   stdout, error, completed>>

\* mutant of GatherRaise: the exception of the batch is caught and dropped
GatherSwallow(b) ==
    /\ pc = Stage(b)
    /\ gather[b].st = "exception"
    /\ session' = [session EXCEPT ![b] = "closed"]
    /\ pc' = AfterBatch(b)
    /\ UNCHANGED <<list_page_tasks, post_tasks, coros, gather, parsed_posts, output,
                   stdout, error, completed>>

(***************************************************************************)
(* assign_html_to_tasks, line 43: the await raises the first exception of  *)
(* the batch; the with block closes the session and the exception leaves   *)
(* assign_html_to_tasks and main (lines 128, 134).  gather cancels no      *)
(* other coroutine.                                                        *)
(***************************************************************************)
GatherRaise(b) ==
    /\ pc = Stage(b)
    /\ gather[b].st = "exception"
    /\ session' = [session EXCEPT ![b] = "closed"]
    /\ error' = gather[b].exc
    /\ pc' = "Raising"
    /\ UNCHANGED <<list_page_tasks, post_tasks, coros, gather, parsed_posts, output,
                   stdout, completed>>

(***************************************************************************)
(* asyncio.run, line 147, once main raised: the coroutines still running   *)
(* are cancelled and the loop is closed.                                   *)
(***************************************************************************)
Cancel(c) == IF c.st \in {"scheduled", "inflight"} THEN [c EXCEPT !.st = "cancelled"] ELSE c

Teardown ==
    /\ pc = "Raising"
    /\ coros' = [b \in Batches |-> [i \in 1..Len(coros[b]) |-> Cancel(coros[b][i])]]
    /\ pc' = "Aborted"
    /\ UNCHANGED <<list_page_tasks, post_tasks, gather, session, parsed_posts, output,
                   stdout, error, completed>>

(***************************************************************************)
(* main, lines 130-132: generate_post_tasks prints once per listing task   *)
(* (extract_links line 48), then the listing tasks are deleted.            *)
(***************************************************************************)
Expand ==
    /\ pc = "Expand"
    /\ post_tasks' = generate_post_tasks(list_page_tasks)
    /\ stdout' = stdout \o [i \in 1..Len(list_page_tasks) |-> "Extracting links..."]
    /\ list_page_tasks' = <<>>
    /\ pc' = "FetchPosts"
    /\ UNCHANGED <<coros, gather, session, parsed_posts, output, error, completed>>

\* mutant of NextToParse: the posts are taken in the order their fetches
\* returned (asyncio.as_completed)
NextToParseAsCompleted ==
    LET k == Len(coros[1]) + Len(parsed_posts) + 1
    IN  IF k \in 1..Len(completed) THEN completed[k][2] ELSE Len(parsed_posts) + 1

\* mutant of NextToParse: the posts are taken from the last to the first
NextToParseReversed == Len(post_tasks) - Len(parsed_posts)

\* parse_all_posts, line 91: for task in tasks, the task the loop is at
NextToParse == Len(parsed_posts) + 1

(***************************************************************************)
(* parse_all_posts, lines 91-98: one iteration of the loop, on the task    *)
(* after the last one parsed.  A ValueError leaves parse_all_posts and     *)
(* main, and the list built so far is lost with it.                        *)
(***************************************************************************)
ParsePost ==
    /\ pc = "Parse"
    /\ Len(parsed_posts) < Len(post_tasks)
    /\ LET i == NextToParse
           task == post_tasks[i]
           post == parse_post_html(task.html, task.site.title_selector,
                                   task.site.body_selector, task.url)
       IN  /\ stdout' = Append(stdout, "Parsing post...")
           /\ IF post.ok
              THEN /\ parsed_posts' = Append(parsed_posts,
                          [title |-> post.title, body |-> post.body, url |-> post.url])
                   /\ UNCHANGED <<pc, error>>
              ELSE /\ parsed_posts' = <<>>
                   /\ error' = ParseError(i)
                   /\ pc' = "Raising"
    /\ UNCHANGED <<list_page_tasks, post_tasks, coros, gather, session, output,
                   completed>>

\* parse_all_posts line 99 and main lines 136-138
ParseReturn ==
    /\ pc = "Parse"
    /\ Len(parsed_posts) = Len(post_tasks)
    /\ post_tasks' = <<>>
    /\ pc' = "Write"
    /\ UNCHANGED <<list_page_tasks, coros, gather, session, parsed_posts, output,
                   stdout, error, completed>>

\* main, lines 140-143: the file is opened for writing, the list dumped
WriteOutput ==
    /\ pc = "Write"
    /\ output' = [opens |-> output.opens + 1, content |-> parsed_posts]
    /\ stdout' = Append(stdout, "DONE.")
    /\ pc' = "Done"
    /\ UNCHANGED <<list_page_tasks, post_tasks, coros, gather, session, parsed_posts,
                   error, completed>>

Next ==
    \/ BuildListTasks
    \/ \E b \in Batches : OpenBatch(b)
    \/ \E b \in Batches : \E i \in 1..MaxLinks : StartFetch(b, i)
    \/ \E b \in Batches : \E i \in 1..MaxLinks : \E body \in Bodies(b) : FetchOk(b, i, body)
    \/ \E b \in Batches : \E i \in 1..MaxLinks : \E cause \in FetchCauses : FetchFail(b, i, cause)
    \/ \E b \in Batches : GatherReturn(b)
    \/ \E b \in Batches : GatherRaise(b)
    \/ Teardown
    \/ Expand
    \/ ParsePost
    \/ ParseReturn
    \/ WriteOutput

Spec == Init /\ [][Next]_vars

\* the same program, with the order in which the fetches return recorded
NextLogged ==
    \/ BuildListTasks
    \/ \E b \in Batches : OpenBatch(b)
    \/ \E b \in Batches : \E i \in 1..MaxLinks : StartFetch(b, i)
    \/ \E b \in Batches : \E i \in 1..MaxLinks : \E body \in Bodies(b) :
          FetchOkLogged(b, i, body)
    \/ \E b \in Batches : \E i \in 1..MaxLinks : \E cause \in FetchCauses : FetchFail(b, i, cause)
    \/ \E b \in Batches : GatherReturn(b)
    \/ \E b \in Batches : GatherRaise(b)
    \/ Teardown
    \/ Expand
    \/ ParsePost
    \/ ParseReturn
    \/ WriteOutput

SpecLogged == Init /\ [][NextLogged]_vars

(***************************************************************************)
(* Vocabulary of the properties.                                           *)
(***************************************************************************)
\* the coroutines of batch b that entered fetch_html and have not finished
InFlight(b) == {i \in 1..Len(coros[b]) : coros[b][i].st = "inflight"}
\* the coroutines of batch b that raised
Failed(b) == {i \in 1..Len(coros[b]) : coros[b][i].st = "failed"}
\* the coroutines of batch b that have not finished
Pending(b) == {i \in 1..Len(coros[b]) : coros[b][i].st \in {"scheduled", "inflight"}}
\* every coroutine of batch b returned after storing the body it read
AllFetched(b) ==
    \A i \in 1..Len(coros[b]) : coros[b][i].st = "done" /\ coros[b][i].sets = 1
\* assign_html_to_tasks returned normally for batch b
Returned(b) == gather[b].st = "result" /\ session[b] = "closed"
\* the output file was opened for writing
Written == output.opens > 0

(***************************************************************************)
(* C1: in every batch the number of fetches in flight at the same time     *)
(* never exceeds the concurrency limit.                                    *)
(* The code has no limit: gather starts every coroutine of the batch.      *)
(***************************************************************************)
C1_InFlightBounded ==
    \A b \in Batches : Cardinality(InFlight(b)) <= ConcurrencyLimit

(***************************************************************************)
(* C2: once a fetch of a batch failed, no task of the batch that was still *)
(* pending gets its html populated, the run does not go on past the batch  *)
(* and no output file is written.                                          *)
(* gather cancels nothing: a fetch that is in flight when another fails    *)
(* still returns and stores its body until main is resumed and             *)
(* asyncio.run tears the loop down.                                        *)
(***************************************************************************)
C2_NoPopulateAfterFailure ==
    [][\A b \in Batches :
          Failed(b) # {} =>
             /\ \A i \in Pending(b) : coros'[b][i].sets = coros[b][i].sets
             /\ pc' \in {Stage(b), "Raising", "Aborted"}
             /\ ~Written']_vars

\* the stages main is in after batch b returned
Past(b) == IF b = 1 THEN {"Expand", "FetchPosts", "Parse", "Write", "Done"}
           ELSE {"Parse", "Write", "Done"}
\* the lines printed so far
Printed == {stdout[k] : k \in 1..Len(stdout)}
\* the title selector matches a node of the body
HasTitle(html) == select_one(html, TitleSelector) # <<>>

(***************************************************************************)
(* C3: a batch is all-or-nothing.  When assign_html_to_tasks returned,     *)
(* every task of the batch was fetched and has its html assigned; main is  *)
(* past a batch only if it returned; once a fetch failed main never gets   *)
(* past the batch and the output is never written.                         *)
(***************************************************************************)
C3_AllOrNothing ==
    \A b \in Batches :
        /\ Returned(b) => AllFetched(b)
        /\ pc \in Past(b) => Returned(b) /\ AllFetched(b)
        /\ (Failed(b) # {} \/ Pending(b) # {}) => pc \notin Past(b) /\ ~Written
        /\ gather[b].st = "exception" => pc \in {Stage(b), "Raising", "Aborted"}

\* batch 2 returned with several tasks
C3_Witness == pc = "Parse" /\ Len(coros[2]) >= 2 /\ Returned(2)

(***************************************************************************)
(* C4: the two fetch phases never interleave.  A post task exists, or      *)
(* anything of batch 2 (session, coroutines, gather), only when every      *)
(* listing fetch returned and batch 1 is closed; while a listing fetch is  *)
(* in flight or has failed there is no post task.                          *)
(***************************************************************************)
C4_Barrier ==
    /\ (post_tasks # <<>> \/ coros[2] # <<>> \/ session[2] # "none" \/ gather[2].st # "none")
          => Returned(1) /\ AllFetched(1) /\ Len(coros[1]) = SITE_COUNT
    /\ (\E i \in 1..Len(coros[1]) : coros[1][i].st # "done")
          => post_tasks = <<>> /\ coros[2] = <<>>

\* a post fetch is in flight
C4_Witness == InFlight(2) # {} /\ Len(post_tasks) >= 2

(***************************************************************************)
(* C5: the output file is opened at most once, and only when both batches  *)
(* returned with every fetch done and every post parsed into a record; a   *)
(* run with a failed fetch or an error never opens it.                     *)
(***************************************************************************)
C5_OutputOnceOnSuccess ==
    /\ output.opens <= 1
    /\ Written =>
          /\ pc = "Done"
          /\ error = NoError
          /\ \A b \in Batches : Returned(b) /\ AllFetched(b)
          /\ Len(output.content) = Len(coros[2])
          /\ \A i \in 1..Len(coros[2]) : HasTitle(coros[2][i].read)
    /\ ~Written => output.content = <<>>
    /\ (error # NoError \/ \E b \in Batches : Failed(b) # {}) => ~Written

\* a run that wrote several records
C5_Witness == Written /\ Len(output.content) >= 2

(***************************************************************************)
(* C6 as stated: the html of a task is empty until its batch runs, and     *)
(* once its batch returned it is non-empty, whatever body the server sent. *)
(* Fails on a 2xx response with an empty body.                             *)
(***************************************************************************)
C6_NonEmptyAfterBatch ==
    \A b \in Batches : \A i \in 1..Len(Tasks(b)) :
        /\ gather[b].st = "none" => Tasks(b)[i].html.empty
        /\ Returned(b) => ~Tasks(b)[i].html.empty

(***************************************************************************)
(* C6 amended: the html of a task is b"" until its batch runs, and once    *)
(* its batch returned it is the body the server sent for it, assigned      *)
(* once: non-empty unless that body is itself empty.                       *)
(***************************************************************************)
C6_HoldsBodyAfterBatch ==
    \A b \in Batches : \A i \in 1..Len(Tasks(b)) :
        /\ gather[b].st = "none" => Tasks(b)[i].html = EmptyBytes
        /\ Returned(b) =>
              /\ i <= Len(coros[b])
              /\ coros[b][i].sets = 1
              /\ Tasks(b)[i].html = coros[b][i].read
              /\ Tasks(b)[i].html.empty <=> coros[b][i].read = EmptyBytes

\* batch 2 returned, one post with an empty body and one with a non-empty one
C6_Witness ==
    /\ Returned(2)
    /\ \E i, j \in 1..Len(post_tasks) : post_tasks[i].html.empty /\ ~post_tasks[j].html.empty

\* the list main holds for batch b after the step
TasksNext(b) == IF b = 1 THEN list_page_tasks' ELSE post_tasks'

(***************************************************************************)
(* C7: the html of every task is assigned at most once over a run, exactly *)
(* once on a run that completes, by the coroutine of its own batch while   *)
(* that batch runs, and never again; every task is fetched at most once,   *)
(* with the session of its own batch, and batch 2 starts only when the     *)
(* listing tasks are gone.                                                 *)
(***************************************************************************)
C7_StateOk ==
    /\ \A b \in Batches : \A i \in 1..Len(coros[b]) :
          /\ coros[b][i].sets <= 1
          /\ coros[b][i].gets <= 1
          /\ coros[b][i].sets = 1 <=> coros[b][i].st = "done"
          /\ coros[b][i].session = b
          /\ pc = "Done" => coros[b][i].sets = 1
    /\ Len(coros[1]) <= SITE_COUNT
    /\ coros[2] # <<>> => list_page_tasks = <<>>
    /\ post_tasks # <<>> /\ coros[2] # <<>> => Len(coros[2]) = Len(post_tasks)

C7_StepOk ==
    \A b \in Batches : \A i \in 1..Len(Tasks(b)) :
        (i <= Len(TasksNext(b)) /\ TasksNext(b)[i] # Tasks(b)[i]) =>
            /\ pc \in {Stage(b), "Raising"}
            /\ coros[b][i].st = "inflight"
            /\ coros[b][i].sets = 0
            /\ coros'[b][i].sets = 1
            /\ TasksNext(b)[i] = [Tasks(b)[i] EXCEPT !.html = coros'[b][i].read]

C7_AssignedOnce == [][C7_StateOk' /\ C7_StepOk]_vars

\* a completed run with several post tasks
C7_Witness == pc = "Done" /\ Len(coros[2]) >= 2

(***************************************************************************)
(* C8: extract_links runs on a listing task only when every fetch of batch *)
(* 1 is done, and parse_post_html on a post task only when every fetch of  *)
(* batch 2 is done; what they read is the body that was fetched.           *)
(***************************************************************************)
C8_ReadAfterBatch ==
    /\ ("Extracting links..." \in Printed \/ pc = "Expand") => Returned(1) /\ AllFetched(1)
    /\ ("Parsing post..." \in Printed \/ pc = "Parse") => Returned(2) /\ AllFetched(2)
    /\ pc = "Expand" =>
          \A i \in 1..Len(list_page_tasks) : list_page_tasks[i].html = coros[1][i].read
    /\ pc = "Parse" =>
          /\ Len(post_tasks) = Len(coros[2])
          /\ \A i \in 1..Len(post_tasks) : post_tasks[i].html = coros[2][i].read

\* a post was parsed in a batch of several
C8_Witness == pc = "Parse" /\ Len(parsed_posts) >= 1 /\ Len(post_tasks) >= 2

(***************************************************************************)
(* C9: if the title selector matches nothing in some post page, the run    *)
(* ends with the parse error and without output, the records parsed before *)
(* are dropped; main gets to the write only if every post has a title.     *)
(***************************************************************************)
C9_TitleMissingAborts ==
    /\ pc \in {"Write", "Done"} => \A i \in 1..Len(coros[2]) : HasTitle(coros[2][i].read)
    /\ pc = "Parse" => \A k \in 1..Len(parsed_posts) : HasTitle(post_tasks[k].html)
    /\ error.kind = "parse" =>
          /\ pc \in {"Raising", "Aborted"}
          /\ ~Written
          /\ parsed_posts = <<>>
          /\ error.task \in 1..Len(post_tasks)
          /\ ~HasTitle(post_tasks[error.task].html)
    /\ (pc = "Aborted" /\ \A b \in Batches : Returned(b)) => error.kind = "parse"

\* a run aborted by a post without title after another post was parsed
C9_Witness ==
    /\ pc = "Aborted" /\ error.kind = "parse" /\ error.task >= 2
    /\ HasTitle(post_tasks[1].html)

(***************************************************************************)
(* C10: when a fetch of a batch fails first, the run ends with the error   *)
(* of that fetch, which names its url; a later failure does not replace    *)
(* it; every task is requested at most once and a coroutine that finished  *)
(* is never started again.                                                 *)
(* The error names the url only when raise_for_status raised it: fetch_html *)
(* lets a timeout through as it is, without url.                           *)
(***************************************************************************)
C10_StateOk ==
    /\ \A b \in Batches :
          /\ Failed(b) # {} <=> gather[b].st = "exception"
          /\ gather[b].st = "exception" =>
                /\ gather[b].exc.kind = "fetch"
                /\ gather[b].exc.batch = b
                /\ gather[b].exc.task \in Failed(b)
          /\ \A i \in 1..Len(coros[b]) : coros[b][i].gets <= 1
    /\ error.kind = "fetch" =>
          /\ pc \in {"Raising", "Aborted"}
          /\ error = gather[error.batch].exc

C10_StepOk ==
    /\ \A b \in Batches :
          /\ gather[b].st = "exception" => gather'[b] = gather[b]
          /\ \A i \in 1..Len(coros[b]) :
                coros[b][i].st \in {"done", "failed", "cancelled"} => coros'[b][i] = coros[b][i]
    /\ error # NoError => error' = error

C10_NamesUrl ==
    error.kind = "fetch" => error.url = coros[error.batch][error.task].url

C10_FirstFailureAborts == [][C10_StateOk' /\ C10_StepOk /\ C10_NamesUrl']_vars

\* C10 without the url: the part of the claim the code keeps
C10_FirstFailureKept == [][C10_StateOk' /\ C10_StepOk]_vars

(***************************************************************************)
(* The run under the scheduling of the event loop: a step that can be      *)
(* taken is taken; a fetch that was started ends, with a body or with an   *)
(* error (the session's timeout bounds it).                                *)
(***************************************************************************)
FairSpec == Spec /\ WF_vars(Next)

\* no listing page that was fetched has a node the link selector matches
NoLinks == \A i \in 1..Len(coros[1]) : select(coros[1][i].read, LinkSelector) = <<>>
ListingUrl == "https://formulanews.ge/Category/all"

(***************************************************************************)
(* C11: when every listing page has zero link nodes, batch 2 runs with no  *)
(* task, returns without any fetch and without error, and the run ends     *)
(* with the empty sequence written as output.                              *)
(***************************************************************************)
C11_StateOk ==
    (Returned(1) /\ NoLinks) =>
        /\ pc \in Past(1)
        /\ error = NoError
        /\ post_tasks = <<>> /\ coros[2] = <<>> /\ parsed_posts = <<>>
        /\ gather[2].st \in {"none", "result"}
        /\ "Parsing post..." \notin Printed
        /\ \A k \in 1..Len(stdout) :
              stdout[k] \in {"Fetching: " \o ListingUrl, "Extracting links...", "DONE."}
        /\ Written <=> pc = "Done"
        /\ pc = "Done" =>
              /\ output = [opens |-> 1, content |-> <<>>]
              /\ Len(stdout) = 2 * SITE_COUNT + 1

C11_EmptyPostBatch ==
    /\ []C11_StateOk
    /\ (Returned(1) /\ NoLinks) ~> (pc = "Done" /\ Written /\ output.content = <<>>)

\* a listing page with a body but no link: the run is done, nothing fetched in batch 2
C11_Witness ==
    /\ pc = "Done" /\ NoLinks /\ Returned(2) /\ coros[2] = <<>>
    /\ ~coros[1][1].read.empty

\* the urls of the links of the listing pages fetched by the coroutines cs,
\* listing after listing, link after link
RECURSIVE LinkUrls(_)
LinkUrls(cs) ==
    IF cs = <<>> THEN <<>>
    ELSE LET links == Head(cs).read.links
         IN  [k \in 1..Len(links) |->
                 "https://formulanews.ge" \o
                     (IF links[k].present THEN links[k].value ELSE "None")]
             \o LinkUrls(Tail(cs))

\* the record of the post whose body is html
PostRecord(html, url) ==
    [title |-> get_text(html.titles[1]),
     body |-> join(<<"\n", "\n">>, [k \in 1..Len(html.paras) |-> get_text(html.paras[k])]),
     url |-> url]

(***************************************************************************)
(* C12: on a run that wrote its output, the output has one record per post *)
(* task, in task order (the listings in site order, the links of a listing *)
(* in document order), the url of each record being the url of its task    *)
(* and its title and body those of the body fetched for that task, in      *)
(* whatever order the fetches returned.                                    *)
(***************************************************************************)
C12_OutputInTaskOrder ==
    /\ pc = "Parse" =>
          \A k \in 1..Len(parsed_posts) : parsed_posts[k].url = post_tasks[k].url
    /\ Written =>
          /\ Len(output.content) = Len(coros[2])
          /\ Len(output.content) = Len(LinkUrls(coros[1]))
          /\ \A k \in 1..Len(output.content) :
                /\ output.content[k].url = coros[2][k].url
                /\ output.content[k].url = LinkUrls(coros[1])[k]
                /\ output.content[k] = PostRecord(coros[2][k].read, coros[2][k].url)

\* the fetch of a later post returned before the fetch of an earlier one
OutOfOrder ==
    \E m, n \in 1..Len(completed) :
        /\ m < n
        /\ completed[m][1] = 2 /\ completed[n][1] = 2
        /\ completed[m][2] > completed[n][2]

\* a run that wrote several records with different urls, fetched out of order
C12_Witness ==
    /\ Written /\ OutOfOrder
    /\ Len(output.content) >= 2
    /\ output.content[1].url # output.content[2].url

\* the link nodes of the listing pages fetched, listing after listing
RECURSIVE LinkNodes(_)
LinkNodes(cs) ==
    IF cs = <<>> THEN <<>> ELSE Head(cs).read.links \o LinkNodes(Tail(cs))

(***************************************************************************)
(* C13: extract_links gives one url per node the link selector matches, in *)
(* document order, each the base url followed by the href of the node as   *)
(* it is (str of it: "None" for a node without href); equal hrefs give     *)
(* equal urls, each a post task of its own that is fetched; no match gives *)
(* no url and no error.                                                    *)
(***************************************************************************)
C13_LinksVerbatim ==
    LET nodes == LinkNodes(coros[1])
    IN  /\ pc = "FetchPosts" =>
              /\ Len(post_tasks) = Len(nodes)
              /\ \A k \in 1..Len(nodes) :
                    /\ nodes[k].present =>
                          post_tasks[k].url = "https://formulanews.ge" \o nodes[k].value
                    /\ ~nodes[k].present =>
                          post_tasks[k].url = "https://formulanews.ge" \o "None"
              /\ nodes = <<>> => post_tasks = <<>> /\ error = NoError
        /\ coros[2] # <<>> =>
              /\ Len(coros[2]) = Len(nodes)
              /\ \A j, k \in 1..Len(nodes) : nodes[j] = nodes[k] => coros[2][j].url = coros[2][k].url
        /\ Returned(2) => \A k \in 1..Len(coros[2]) : coros[2][k].gets = 1

\* two links with the same href: two post tasks with the same url, both fetched
C13_Witness ==
    /\ Returned(2) /\ Len(coros[2]) >= 2
    /\ coros[1][1].read.links[1] = coros[1][1].read.links[2]
    /\ coros[2][1].url = coros[2][2].url
    /\ coros[2][1].gets = 1 /\ coros[2][2].gets = 1

(***************************************************************************)
(* C14: parse_post_html raises its title error exactly when the title      *)
(* selector matches no node; a body selector that matches nothing is no    *)
(* error, the record then has the empty string as body.  Otherwise the     *)
(* title is the stripped text of the first title node and the body the     *)
(* stripped texts of the body nodes joined by a blank line.                *)
(***************************************************************************)
C14_ParseStep ==
    (pc = "Parse" /\ stdout' # stdout) =>
        LET html == post_tasks[Len(parsed_posts) + 1].html
            post == parsed_posts'[Len(parsed_posts) + 1]
        IN  /\ (pc' = "Raising" /\ error'.kind = "parse") <=> html.titles = <<>>
            /\ html.titles # <<>> =>
                  /\ pc' = "Parse" /\ error' = NoError
                  /\ Len(parsed_posts') = Len(parsed_posts) + 1
                  /\ post.title = <<"T">>
                  /\ html.paras = <<>> => post.body = <<>>
                  /\ html.paras # <<>> => post.body = <<"p", "\n", "\n", "q">>

C14_TitleErrorIff == [][C14_ParseStep]_vars

\* a post with a title and no body node was parsed into a record
C14_Witness ==
    /\ pc = "Parse"
    /\ \E k \in 1..Len(parsed_posts) :
          /\ post_tasks[k].html.paras = <<>>
          /\ parsed_posts[k].body = <<>>
          /\ parsed_posts[k].title = <<"T">>

\* the place of a stage in the order of main
Rank(stage) ==
    CASE stage = "Init" -> 0
      [] stage = "FetchListings" -> 1
      [] stage = "Expand" -> 2
      [] stage = "FetchPosts" -> 3
      [] stage = "Parse" -> 4
      [] stage = "Write" -> 5
      [] stage = "Done" -> 6
      [] OTHER -> 7

\* the two ways a run ends
Completed == pc = "Done" /\ Written /\ error = NoError /\ "DONE." \in Printed
Abandoned == pc = "Aborted" /\ ~Written /\ error # NoError /\ "DONE." \notin Printed

(***************************************************************************)
(* C15: main goes through Init, FetchListings, Expand, FetchPosts, Parse   *)
(* and the write in this order, one after the other, never back and never  *)
(* twice, leaving the order only to abort from a fetch stage or from the   *)
(* parse; and, every started fetch ending, every run ends in exactly one   *)
(* of two states and stays there: done with the output written, or aborted *)
(* with an error and no output.                                            *)
(***************************************************************************)
C15_StepOk ==
    /\ pc' # pc =>
          \/ Rank(pc) < 6 /\ Rank(pc') = Rank(pc) + 1
          \/ pc \in {"FetchListings", "FetchPosts", "Parse"} /\ pc' = "Raising"
          \/ pc = "Raising" /\ pc' = "Aborted"
    /\ pc \in {"Done", "Aborted"} => vars' = vars

C15_EndOk ==
    /\ pc = "Done" => Completed
    /\ pc = "Aborted" => Abandoned
    /\ ~(Completed /\ Abandoned)

C15_StagesInOrder ==
    /\ [][C15_StepOk]_vars
    /\ []C15_EndOk
    /\ <>[](Completed \/ Abandoned)

\* a run that went through every stage and is done
C15_Witness == Completed /\ Len(output.content) >= 1 /\ Len(stdout) >= 5

\* for every link node of the listing pages fetched by the coroutines
\* cs[n..], the number of the listing it is on
RECURSIVE LinkOwners(_, _)
LinkOwners(cs, n) ==
    IF n > Len(cs) THEN <<>>
    ELSE [k \in 1..Len(cs[n].read.links) |-> n] \o LinkOwners(cs, n + 1)

(***************************************************************************)
(* C16: main builds one listing task per SiteConfig, its url the base url  *)
(* followed by the extension and its html empty; Expand builds one post    *)
(* task per link node found, with the SiteConfig of the listing the link   *)
(* is on and an empty html: as many post tasks as link nodes over all      *)
(* listings.                                                               *)
(***************************************************************************)
C16_OneTaskPerLink ==
    LET sites == list_all_sites(SITE_COUNT)
        owners == LinkOwners(coros[1], 1)
    IN  /\ pc \in {"FetchListings", "Expand"} =>
              /\ Len(list_page_tasks) = SITE_COUNT
              /\ \A i \in 1..SITE_COUNT :
                    /\ list_page_tasks[i].site = sites[i]
                    /\ list_page_tasks[i].url = "https://formulanews.ge/Category/all"
                    /\ gather[1].st = "none" => list_page_tasks[i].html = EmptyBytes
        /\ pc = "FetchPosts" =>
              /\ Len(post_tasks) = Len(owners)
              /\ Len(post_tasks) = Len(LinkNodes(coros[1]))
              /\ \A k \in 1..Len(post_tasks) :
                    /\ post_tasks[k].site = sites[owners[k]]
                    /\ post_tasks[k].url = LinkUrls(coros[1])[k]
                    /\ gather[2].st = "none" => post_tasks[k].html = EmptyBytes

\* the post tasks of a listing with several links, just built
C16_Witness == pc = "FetchPosts" /\ gather[2].st = "none" /\ Len(post_tasks) >= 2

\* the SiteConfigs of the run
Sites == {list_all_sites(SITE_COUNT)[i] : i \in 1..SITE_COUNT}
\* the coroutine i of batch b returns in this step
Completes(b, i) ==
    i \in 1..Len(coros[b]) /\ coros[b][i].st = "inflight" /\ coros'[b][i].st = "done"

(***************************************************************************)
(* C17: the return of the fetch of a task changes the html of that task    *)
(* and nothing else of main's data: not the html of another task of either *)
(* batch, not the url or site of any task, not a SiteConfig, not the       *)
(* records, the output or the stage; and no other step changes a task that *)
(* main holds.                                                             *)
(***************************************************************************)
C17_StepOk ==
    /\ \A b \in Batches : \A i \in 1..MaxLinks :
          Completes(b, i) =>
             /\ Len(TasksNext(b)) = Len(Tasks(b))
             /\ \A j \in 1..Len(Tasks(b)) :
                   /\ TasksNext(b)[j].url = Tasks(b)[j].url
                   /\ TasksNext(b)[j].site = Tasks(b)[j].site
                   /\ j # i => TasksNext(b)[j] = Tasks(b)[j]
             /\ TasksNext(b)[i].html = coros'[b][i].read
             /\ TasksNext(3 - b) = Tasks(3 - b)
             /\ \A j \in 1..Len(coros[b]) : j # i => coros'[b][j] = coros[b][j]
             /\ coros'[3 - b] = coros[3 - b]
             /\ <<pc, session, parsed_posts, output, stdout, error>>' =
                   <<pc, session, parsed_posts, output, stdout, error>>
    /\ \A b \in Batches :
          (Len(TasksNext(b)) = Len(Tasks(b)) /\ TasksNext(b) # Tasks(b)) =>
              \E i \in 1..Len(Tasks(b)) : Completes(b, i)
    /\ \A b \in Batches : Len(TasksNext(b)) # Len(Tasks(b)) => pc' # pc

C17_SitesOk ==
    \A b \in Batches : \A i \in 1..Len(Tasks(b)) : Tasks(b)[i].site \in Sites

C17_FetchFrame == [][C17_StepOk /\ C17_SitesOk']_vars

\* a post fetch returned with a body while another is still in flight
C17_Witness ==
    \E i, j \in 1..Len(post_tasks) :
        /\ coros[2] # <<>>
        /\ coros[2][i].st = "done" /\ ~post_tasks[i].html.empty
        /\ coros[2][j].st = "inflight" /\ post_tasks[j].html = EmptyBytes

(***************************************************************************)
(* C18: each batch has a session of its own, opened when the batch starts  *)
(* and closed when it ends, never opened again; the two sessions are never *)
(* open together and a fetch of batch 2 never uses the session of batch 1; *)
(* when assign_html_to_tasks returned, its session is closed and no fetch  *)
(* of the batch is in flight or waiting.                                   *)
(***************************************************************************)
C18_StateOk ==
    /\ \A b \in Batches :
          /\ \A i \in 1..Len(coros[b]) : coros[b][i].session = b
          /\ session[b] = "none" <=> gather[b].st = "none"
          /\ session[b] = "open" => pc = Stage(b)
          /\ pc \in Past(b) => session[b] = "closed"
          /\ Returned(b) => InFlight(b) = {} /\ Pending(b) = {}
    /\ session[2] # "none" => session[1] = "closed"

C18_StepOk ==
    \A b \in Batches :
        /\ session[b] = "closed" => session'[b] = "closed"
        /\ session[b] = "open" => session'[b] \in {"open", "closed"}
        /\ (session[b] = "none" /\ session'[b] # "none") =>
              session'[b] = "open" /\ pc = Stage(b) /\ gather'[b].st # "none"

C18_SessionPerBatch == [][C18_StateOk' /\ C18_StepOk]_vars

\* batch 2 at work with its session, the session of batch 1 closed
C18_Witness ==
    /\ session[1] = "closed" /\ session[2] = "open"
    /\ \E i \in InFlight(2) : coros[2][i].session = 2

\* how many times parse_post_html was entered (its print, line 71)
ParseCount == Cardinality({k \in 1..Len(stdout) : stdout[k] = "Parsing post..."})

(***************************************************************************)
(* C19: the posts are parsed one after the other in task order and the     *)
(* parse stops at the first failure: the error that ends the run is the    *)
(* one of the earliest post task without title, every post before it was   *)
(* parsed and none after it.                                               *)
(***************************************************************************)
C19_FirstParseFailure ==
    /\ pc = "Parse" =>
          /\ ParseCount = Len(parsed_posts)
          /\ \A k \in 1..Len(parsed_posts) :
                /\ HasTitle(post_tasks[k].html)
                /\ parsed_posts[k].url = post_tasks[k].url
    /\ error.kind = "parse" =>
          /\ error.task \in 1..Len(post_tasks)
          /\ ~HasTitle(post_tasks[error.task].html)
          /\ \A k \in 1..(error.task - 1) : HasTitle(post_tasks[k].html)
          /\ ParseCount = error.task
    /\ ParseCount <= Len(coros[2])

\* two posts without title, a post with title before them: the run ended on
\* the first of the two
C19_Witness ==
    /\ pc = "Aborted" /\ error.kind = "parse"
    /\ error.task >= 2
    /\ \E j \in (error.task + 1)..Len(post_tasks) : ~HasTitle(post_tasks[j].html)

====
